---------------------------- MODULE Spec2Model ----------------------------
(***************************************************************************)
(* The paginated list pages of the lead-manager dashboard                  *)
(* (src/app/(protected)/appointments/page.tsx): AppointmentsPage and       *)
(* SellersPage.  One page component is mounted at a time (route).  Every   *)
(* action is one run of the single JavaScript thread: an event handler or  *)
(* the continuation of an await, followed by the re-render and the effects *)
(* that the changed state triggers.  The authentication context            *)
(* (src/context/AuthContext.tsx): AuthProvider, with login and logout.     *)
(***************************************************************************)
EXTENDS Integers, FiniteSets, Sequences, TLC

VARIABLES
    route,                      \* which page component is mounted
    sellers,                    \* useState<Seller[]>: the rows displayed (sellers page)
    appointments,               \* useState<Appointment[]>: the rows displayed
    total,                      \* useState(0)
    currentPage,                \* useState(1)
    search,                     \* sellers: the text of the search box
    lastFetchedSearch,          \* sellers: the search term of the last applied response
    selectedStatus,             \* appointments: the status filter
    isLoading,                  \* useState(true)
    error,                      \* useState<string | null>(null)
    sellerPendingDeletion,      \* sellers: the item of the confirmation dialog
    isDeleting,                 \* sellers: the delete handler is running
    appointmentPendingDeletion, \* appointments: the item of the confirmation dialog
    isDeletingAppointment,      \* appointments: the delete handler is running
    latestRequestRef,           \* sellers: useRef(0), the supersession token
    hasFetchedInitial,          \* useRef(false)
    delay,                      \* sellers: the setTimeout of the debounce effect
    inFlight,                   \* the list requests (api.get) awaiting their response
    deleteCalls,                \* the api.delete calls awaiting their response
    issued,                     \* history: how many list requests were issued
    lastIssued,                 \* history: the outcome of the last-issued list request
    lastLoadedPage,             \* history: the page of the last applied successful response
    timerFetches,               \* history: fetches issued by the debounce timer since the last user action
    lastEvent,                  \* history: the handler or continuation that ran last
    budget,                     \* the list requests one behaviour may issue
    isModalOpen,                \* useState(false): the form modal is open
    editingId,                  \* editingSellerId / editingAppointmentId
    saveCalls,                  \* the api.post / api.patch calls awaiting their response
    auth                        \* AuthProvider and what it works with, see below

listVars == <<sellers, appointments, total, currentPage, isLoading, error>>
queryVars == <<search, lastFetchedSearch, selectedStatus>>
deleteVars == <<sellerPendingDeletion, isDeleting, appointmentPendingDeletion,
                isDeletingAppointment, deleteCalls>>
refVars == <<latestRequestRef, hasFetchedInitial>>
formVars == <<isModalOpen, editingId, saveCalls>>
historyVars == <<issued, lastIssued, lastLoadedPage, timerFetches, lastEvent>>

\* The fields of auth.
authState == auth.authState     \* AuthProvider: useState<StoredAuth | null>(null)
loading == auth.loading         \* AuthProvider: useState(true)
storedAuth == auth.storedAuth   \* lib/auth-storage: the token and user kept by the browser
path == auth.path               \* useRouter(): the location of the application
authMounted == auth.mounted     \* AuthProvider: the mount effect has run
loginCalls == auth.loginCalls   \* the api.post('/auth/login') calls awaiting their response
settled == auth.settled         \* the promise of each call of login, in the order of the calls
loggedOut == auth.loggedOut     \* history: logout was called and login was not called since

authVars == <<auth>>
vars == <<route, listVars, queryVars, deleteVars, refVars, delay, inFlight, historyVars,
          budget, formVars, authVars>>

---------------------------------------------------------------------------
\* Bounds of the model.
MaxRequests == 3        \* list requests issued in one behaviour
MaxTotalPages == 2      \* the server's totals span 0..MaxTotalPages pages
MaxLogins == 2          \* calls of login in one behaviour

\* Program constants.
PAGE_SIZE == 20
SELLERS_PAGE_SIZE == 50
DEBOUNCE_MS == 300

Null == "null"                  \* null, where the other values are strings
None == 0                       \* null or absent, where the other values are numbers >= 1
Undefined == "undefined"        \* a parameter left out of the query string
Terms == {"", "a"}              \* the search texts typed
statusOptions == {"AGENDADA", "NO_SHOW"}
StatusChoices == {""} \cup statusOptions
ItemIds == {1}                    \* the ids of the items of the rows

\* A failure that leaves no message.
NoMessage == Null
ErrLoadSellers == "Nao foi possivel carregar os vendedores."
ErrLoadAppointments == "Nao foi possivel carregar as calls."
ErrRemoveSeller == "Erro ao remover vendedor."
ErrRemoveAppointment == "Erro ao remover call."
ErrSaveSeller == "Erro ao salvar vendedor."
ErrSaveAppointment == "Erro ao salvar call."

Max(a, b) == IF a >= b THEN a ELSE b
Min(a, b) == IF a <= b THEN a ELSE b
\* A division that rounds down.
Floor(a, b) == a \div b
\* Math.ceil(a / b) for a >= 0, b > 0
Ceil(a, b) == IF a % b = 0 THEN a \div b ELSE (a \div b) + 1
\* x ?? d, for a number x
Coalesce(x, d) == IF x = None THEN d ELSE x
\* A query that sends the empty string instead of leaving the parameter out.
OrEmpty(x) == x

\* x || undefined, for a string x
OrUndefined(x) == IF x = "" THEN Undefined ELSE x

PageSize == IF route = "sellers" THEN SELLERS_PAGE_SIZE ELSE PAGE_SIZE

---------------------------------------------------------------------------
\* Derived values of a render.
isSearchDirty == search # lastFetchedSearch
totalPages == Max(1, Ceil(total, PageSize))
\* A page that is not clamped.
UnclampedPage == currentPage
effectivePage == Min(currentPage, totalPages)
showingFrom == IF total = 0 THEN 0 ELSE (effectivePage - 1) * PageSize + 1
\* A last row that is not clamped to the total.
ShowingToUnclamped == IF total = 0 THEN 0 ELSE effectivePage * PageSize
showingTo == IF total = 0 THEN 0 ELSE Min(effectivePage * PageSize, total)
\* The page indicator: Pagina {total > 0 ? effectivePage : 1} de {totalPages}
shownPage == IF total > 0 THEN effectivePage ELSE 1
canGoPrevious == effectivePage > 1
canGoNext == effectivePage < totalPages /\ total > 0

\* The rows of the table, with the edit and delete buttons, are rendered only
\* when the list is not loading and not empty.
RowsShown(list) == ~isLoading /\ list.rows > 0

---------------------------------------------------------------------------
\* The remote collaborator: what a list response can be.
ServerTotals(ps) == {0} \cup {(p - 1) * ps + 5 : p \in 1..MaxTotalPages}
RowsOn(tot, pg, ps) == Max(0, Min(ps, tot - (pg - 1) * ps))
\* The page field of a response: left out, the requested page, or the page
\* clamped to the collection's last page.
ServerPages(req, tot, ps) == {None, req, Min(req, Max(1, Ceil(tot, ps)))}

\* lastEvent names the last run when it is one the properties speak of, with
\* the page or request it was about; any other run leaves Quiet.
Event(op, n) == [op |-> op, n |-> n]
Quiet == Event("other", 0)
Outcome(st, tot, pg) == [st |-> st, total |-> tot, page |-> pg]

---------------------------------------------------------------------------
\* Initial state: the values of useState and useRef, before the mount effect.
\* requests is the number of list requests the behaviour may issue.
Construct(requests) ==
    /\ route \in {"sellers", "appointments"}
    /\ sellers = [req |-> 0, rows |-> 0]
    /\ appointments = [req |-> 0, rows |-> 0]
    /\ total = 0
    /\ currentPage = 1
    /\ search = ""
    /\ lastFetchedSearch = ""
    /\ selectedStatus = ""
    /\ isLoading = TRUE
    /\ error = Null
    /\ sellerPendingDeletion = None
    /\ isDeleting = FALSE
    /\ appointmentPendingDeletion = None
    /\ isDeletingAppointment = FALSE
    /\ latestRequestRef = 0
    /\ hasFetchedInitial = FALSE
    /\ delay = 0
    /\ inFlight = {}
    /\ deleteCalls = {}
    /\ issued = 0
    /\ lastIssued = Outcome("none", 0, 0)
    /\ lastLoadedPage = 1
    /\ timerFetches = 0
    /\ lastEvent = Quiet
    /\ budget = requests
    /\ isModalOpen = FALSE
    /\ editingId = None
    /\ saveCalls = {}

\* StoredAuth: the token and user of a session.
StoredAuth(token, user) == [token |-> token, user |-> user]
\* null, where the other values are StoredAuth
NoAuth == StoredAuth(Null, Null)

\* The state of AuthProvider after construction, before its mount effect, in a
\* browser whose storage holds stored, with the application at the location at.
ConstructAuth(stored, at) ==
    auth = [authState |-> NoAuth,
            loading |-> TRUE,
            storedAuth |-> stored,
            path |-> at,
            mounted |-> FALSE,
            loginCalls |-> {},
            settled |-> <<>>,
            loggedOut |-> FALSE]

Init == Construct(MaxRequests) /\ ConstructAuth(NoAuth, "/appointments")

\* A list request can still be issued within the bound: the requests issued,
\* and those the pending delete and save calls will issue when they succeed.
CanIssue == issued + Cardinality(deleteCalls) + Cardinality(saveCalls) < budget

\* A mount effect that does not look at its ref.
NeverFetchedBefore == FALSE

\* The early return of the mount effects: if (hasFetchedInitial.current) return
AlreadyFetched == hasFetchedInitial

---------------------------------------------------------------------------
\* SellersPage

\* The debounce effect, deps [fetchSellers, isSearchDirty, search], where
\* fetchSellers changes with [currentPage, lastFetchedSearch].  When a dep has
\* changed in this render, the cleanup clears the timer and the effect arms a
\* new one if the search is dirty.  left is the timer the handler leaves.
DebounceEffect(left) ==
    delay' =
        IF <<currentPage', lastFetchedSearch', search'>> # <<currentPage, lastFetchedSearch, search>>
        THEN (IF search' # lastFetchedSearch' THEN DEBOUNCE_MS ELSE 0)
        ELSE left

\* A token that is read without being raised.
ReusedRequestId == latestRequestRef

\* const requestId = ++latestRequestRef.current
requestId == latestRequestRef + 1

\* fetchSellers({page, searchTerm}) up to its await, called from a render whose
\* currentPage was closurePage.  caller names the handler that called it.
fetchSellers(pageToFetch, searchTerm, closurePage, caller) ==
    /\ currentPage' = IF pageToFetch # closurePage THEN pageToFetch ELSE currentPage
    /\ latestRequestRef' = requestId
    /\ isLoading' = TRUE
    /\ error' = Null
    /\ inFlight' = inFlight \cup
          {[id |-> requestId,
            params |-> [page |-> pageToFetch, limit |-> SELLERS_PAGE_SIZE,
                        filter |-> OrUndefined(searchTerm)],
            term |-> searchTerm,
            prev |-> closurePage,
            caller |-> caller]}
    /\ issued' = issued + 1
    /\ lastIssued' = Outcome("pending", 0, 0)

\* The mount effect of SellersPage, deps [fetchSellers]: it runs after the
\* first render and again whenever fetchSellers has changed.
SellersMount ==
    /\ route = "sellers"
    /\ UNCHANGED formVars
    /\ ~AlreadyFetched
    /\ CanIssue
    /\ hasFetchedInitial' = TRUE
    /\ fetchSellers(currentPage, lastFetchedSearch, currentPage, "other")
    /\ timerFetches' = 0
    /\ lastEvent' = Quiet
    /\ UNCHANGED <<route, budget, authVars, sellers, appointments, total, queryVars, deleteVars, lastLoadedPage>>
    /\ DebounceEffect(delay)

\* handleSearchChange: the user edits the search box.
handleSearchChange(value) ==
    /\ route = "sellers"
    /\ UNCHANGED formVars
    /\ hasFetchedInitial
    /\ value # search
    /\ search' = value
    /\ error' = Null
    /\ isLoading' = TRUE
    /\ UNCHANGED <<route, budget, authVars, sellers, appointments, total, currentPage, lastFetchedSearch,
                   selectedStatus, deleteVars, refVars, inFlight, issued, lastIssued,
                   lastLoadedPage>>
    /\ timerFetches' = 0
    /\ lastEvent' = Quiet
    /\ DebounceEffect(delay)

\* The debounce timer expires DEBOUNCE_MS after it was armed.
DebounceTimeout ==
    /\ route = "sellers"
    /\ UNCHANGED formVars
    /\ delay = DEBOUNCE_MS
    /\ CanIssue
    /\ fetchSellers(1, search, currentPage, "other")
    /\ timerFetches' = timerFetches + 1
    /\ lastEvent' = Event("debounce", 0)
    /\ UNCHANGED <<route, budget, authVars, sellers, appointments, total, queryVars, deleteVars,
                   hasFetchedInitial, lastLoadedPage>>
    /\ DebounceEffect(0)

\* onKeyDown of the search box, key Enter.
SearchEnter ==
    /\ route = "sellers"
    /\ UNCHANGED formVars
    /\ hasFetchedInitial
    /\ CanIssue
    /\ fetchSellers(1, search, currentPage, "other")
    /\ timerFetches' = 0
    /\ lastEvent' = Quiet
    /\ UNCHANGED <<route, budget, authVars, sellers, appointments, total, queryVars, deleteVars,
                   hasFetchedInitial, lastLoadedPage>>
    /\ DebounceEffect(delay)

\* onClick of the Atualizar button.
RefreshClick ==
    /\ route = "sellers"
    /\ UNCHANGED formVars
    /\ hasFetchedInitial
    /\ CanIssue
    /\ fetchSellers(1, IF isSearchDirty THEN search ELSE lastFetchedSearch, currentPage, "other")
    /\ timerFetches' = 0
    /\ lastEvent' = Quiet
    /\ UNCHANGED <<route, budget, authVars, sellers, appointments, total, queryVars, deleteVars,
                   hasFetchedInitial, lastLoadedPage>>
    /\ DebounceEffect(delay)

\* A guard of handlePageChange that forgets the upper limit.
PageChangeRejectedNoUpper(page) ==
    page < 1 \/ page = currentPage \/ isLoading

\* The guard of handlePageChange.
PageChangeRejected(page) ==
    page < 1 \/ page > totalPages \/ page = currentPage \/ isLoading

\* handlePageChange(page) of SellersPage.
handlePageChangeSellers(page) ==
    /\ route = "sellers"
    /\ UNCHANGED formVars
    /\ hasFetchedInitial
    /\ lastEvent' = IF PageChangeRejected(page) /\ ~isLoading
                    THEN Event("pageChangeRejected", page)
                    ELSE Quiet
    /\ timerFetches' = 0
    /\ UNCHANGED <<route, budget, authVars, sellers, appointments, total, queryVars, deleteVars,
                   hasFetchedInitial, lastLoadedPage>>
    /\ IF PageChangeRejected(page)
       THEN UNCHANGED <<currentPage, latestRequestRef, isLoading, error, inFlight,
                        issued, lastIssued, delay>>
       ELSE /\ CanIssue
            /\ fetchSellers(page, IF isSearchDirty THEN search ELSE lastFetchedSearch,
                            currentPage, "handlePageChange")
            /\ DebounceEffect(delay)

\* handlePreviousPage / handleNextPage of SellersPage: the buttons are disabled
\* when !canGoPrevious (!canGoNext) or isLoading.
handlePreviousPageSellers ==
    /\ canGoPrevious /\ ~isLoading
    /\ handlePageChangeSellers(currentPage - 1)

handleNextPageSellers ==
    /\ canGoNext /\ ~isLoading
    /\ handlePageChangeSellers(currentPage + 1)

\* A fetchSellers without the supersession check.
IsLatestUnchecked(r) == TRUE

\* requestId === latestRequestRef.current, when the request r returns.
IsLatest(r) == r.id = latestRequestRef

\* A catch block that does not revert the page.
PageKeptAfterRejection(r) == currentPage

\* The page the catch block of fetchSellers leaves.
PageAfterRejection(r) == IF r.params.page # r.prev THEN r.prev ELSE currentPage

\* What the handler awaiting fetchSellers does when the fetch returns.
AfterFetchSellers(r) ==
    isDeleting' = IF r.caller = "handleConfirmDelete" THEN FALSE ELSE isDeleting

\* The response of a list request of SellersPage arrives: the rest of the try
\* block of fetchSellers, and its finally.
fetchSellersResolved(r, tot, pg) ==
    /\ route = "sellers"
    /\ UNCHANGED formVars
    /\ r \in inFlight
    /\ inFlight' = inFlight \ {r}
    /\ IF ~IsLatest(r)
       THEN /\ UNCHANGED <<sellers, total, currentPage, lastFetchedSearch, isLoading,
                           lastLoadedPage>>
            /\ lastEvent' = Event("staleResolved", 0)
       ELSE /\ sellers' = [req |-> r.id,
                           rows |-> RowsOn(tot, Coalesce(pg, r.params.page), SELLERS_PAGE_SIZE)]
            /\ total' = tot
            /\ currentPage' = Coalesce(pg, r.params.page)
            /\ lastFetchedSearch' = r.term
            /\ isLoading' = FALSE
            /\ lastLoadedPage' = Coalesce(pg, r.params.page)
            /\ lastEvent' = Event("resolved", 0)
    /\ lastIssued' = IF r.id = issued
                     THEN Outcome("ok", tot, Coalesce(pg, r.params.page))
                     ELSE lastIssued
    /\ AfterFetchSellers(r)
    /\ UNCHANGED <<route, budget, authVars, appointments, search, selectedStatus, error,
                   sellerPendingDeletion, appointmentPendingDeletion,
                   isDeletingAppointment, deleteCalls, refVars, issued, timerFetches>>
    /\ DebounceEffect(delay)

\* A list request of SellersPage fails: the catch block of fetchSellers, and
\* its finally.
fetchSellersRejected(r) ==
    /\ route = "sellers"
    /\ UNCHANGED formVars
    /\ r \in inFlight
    /\ inFlight' = inFlight \ {r}
    /\ IF IsLatest(r)
       THEN /\ error' = ErrLoadSellers
            /\ currentPage' = PageAfterRejection(r)
            /\ isLoading' = FALSE
            /\ lastEvent' = Event("rejected", IF r.caller = "handlePageChange"
                                               THEN r.params.page ELSE 0)
       ELSE /\ UNCHANGED <<error, currentPage, isLoading>>
            /\ lastEvent' = Event("staleRejected", 0)
    /\ lastIssued' = IF r.id = issued THEN Outcome("failed", 0, 0) ELSE lastIssued
    /\ AfterFetchSellers(r)
    /\ UNCHANGED <<route, budget, authVars, sellers, appointments, total, queryVars,
                   sellerPendingDeletion, appointmentPendingDeletion,
                   isDeletingAppointment, deleteCalls, refVars, issued,
                   lastLoadedPage, timerFetches>>
    /\ DebounceEffect(delay)

\* A confirm handler without the early return.
NeverReturnsEarly(pending) == FALSE

\* The early return of a confirm handler: nothing is pending deletion.
NothingPending(pending) == pending = None

\* ConfirmDialog (components/ConfirmDialog): the confirm button does not act
\* while isConfirmLoading.
ConfirmEnabled(isConfirmLoading) == ~isConfirmLoading

\* A cancel handler without the early return.
AfterCancelAlways(deleting, pending) == None

\* The pending item a cancel handler leaves: it returns early while deleting.
AfterCancel(deleting, pending) == IF deleting THEN pending ELSE None

\* A confirm handler that does not raise its flag.
FlagLeftDown == FALSE

\* setIsDeleting(true) / setIsDeletingAppointment(true), before the await of
\* api.delete.
WhileDeleting == TRUE

\* A delete handler that goes back one page.
PreviousPageAfterDelete(d) == Max(1, d.page - 1)

\* The page a confirm handler fetches after the delete d: page: currentPage,
\* of the render of the confirm click.
PageAfterDelete(d) == d.page

\* requestDeleteSeller: the Remover button of a row.
requestDeleteSeller(seller) ==
    /\ route = "sellers"
    /\ UNCHANGED formVars
    /\ hasFetchedInitial
    /\ RowsShown(sellers)
    /\ sellerPendingDeletion' = seller
    /\ timerFetches' = 0
    /\ lastEvent' = Quiet
    /\ UNCHANGED <<route, budget, authVars, listVars, queryVars, isDeleting, appointmentPendingDeletion,
                   isDeletingAppointment, deleteCalls, refVars, delay, inFlight,
                   issued, lastIssued, lastLoadedPage>>

\* handleConfirmDeleteSeller up to its first await.  The call keeps the values
\* of the render it was made from for the fetch that follows.
handleConfirmDeleteSeller ==
    /\ route = "sellers"
    /\ UNCHANGED formVars
    /\ hasFetchedInitial
    /\ ConfirmEnabled(isDeleting)
    /\ IF NothingPending(sellerPendingDeletion)
       THEN UNCHANGED <<isDeleting, error, deleteCalls>>
       ELSE /\ CanIssue
            /\ isDeleting' = WhileDeleting
            /\ error' = Null
            /\ deleteCalls' = deleteCalls \cup
                  {[item |-> sellerPendingDeletion,
                    page |-> currentPage,
                    term |-> IF isSearchDirty THEN search ELSE lastFetchedSearch]}
    /\ timerFetches' = 0
    /\ lastEvent' = Quiet
    /\ UNCHANGED <<route, budget, authVars, sellers, appointments, total, currentPage, isLoading, queryVars,
                   sellerPendingDeletion, appointmentPendingDeletion,
                   isDeletingAppointment, refVars, delay, inFlight,
                   issued, lastIssued, lastLoadedPage>>

\* handleCancelDeleteSeller
handleCancelDeleteSeller ==
    /\ route = "sellers"
    /\ UNCHANGED formVars
    /\ hasFetchedInitial
    /\ sellerPendingDeletion' = AfterCancel(isDeleting, sellerPendingDeletion)
    /\ timerFetches' = 0
    /\ lastEvent' = IF isDeleting THEN Event("cancelIgnored", 0) ELSE Quiet
    /\ UNCHANGED <<route, budget, authVars, listVars, queryVars, isDeleting, appointmentPendingDeletion,
                   isDeletingAppointment, deleteCalls, refVars, delay, inFlight,
                   issued, lastIssued, lastLoadedPage>>

\* api.delete of SellersPage succeeds: the item leaves the dialog and the list
\* is fetched again, from the render of the confirm click.
deleteSellerResolved(d) ==
    /\ route = "sellers"
    /\ UNCHANGED formVars
    /\ d \in deleteCalls
    /\ deleteCalls' = deleteCalls \ {d}
    /\ sellerPendingDeletion' = None
    /\ fetchSellers(PageAfterDelete(d), d.term, d.page, "handleConfirmDelete")
    /\ lastEvent' = Quiet
    /\ UNCHANGED <<route, budget, authVars, sellers, appointments, total, queryVars, isDeleting,
                   appointmentPendingDeletion, isDeletingAppointment,
                   hasFetchedInitial, lastLoadedPage, timerFetches>>
    /\ DebounceEffect(delay)

\* api.delete of SellersPage fails: catch and finally of handleConfirmDeleteSeller.
deleteSellerRejected(d) ==
    /\ route = "sellers"
    /\ UNCHANGED formVars
    /\ d \in deleteCalls
    /\ deleteCalls' = deleteCalls \ {d}
    /\ error' = ErrRemoveSeller
    /\ isDeleting' = FALSE
    /\ lastEvent' = Event("deleteRejected", 0)
    /\ UNCHANGED <<route, budget, authVars, sellers, appointments, total, currentPage, isLoading, queryVars,
                   sellerPendingDeletion, appointmentPendingDeletion,
                   isDeletingAppointment, refVars, delay, inFlight, issued,
                   lastIssued, lastLoadedPage, timerFetches>>

NextSellers ==
    \/ SellersMount
    \/ \E value \in Terms : handleSearchChange(value)
    \/ DebounceTimeout
    \/ SearchEnter
    \/ RefreshClick
    \/ \E page \in 0..(MaxTotalPages + 1) : handlePageChangeSellers(page)
    \/ handlePreviousPageSellers
    \/ handleNextPageSellers
    \/ \E r \in inFlight : \E tot \in ServerTotals(SELLERS_PAGE_SIZE) :
          \E pg \in ServerPages(r.params.page, tot, SELLERS_PAGE_SIZE) :
             fetchSellersResolved(r, tot, pg)
    \/ \E r \in inFlight : fetchSellersRejected(r)
    \/ \E seller \in ItemIds : requestDeleteSeller(seller)
    \/ handleConfirmDeleteSeller
    \/ handleCancelDeleteSeller
    \/ \E d \in deleteCalls : deleteSellerResolved(d)
    \/ \E d \in deleteCalls : deleteSellerRejected(d)

---------------------------------------------------------------------------
\* AppointmentsPage

\* fetchAppointments({page, status}) up to its await, called from a render
\* whose currentPage was closurePage.
fetchAppointments(pageToFetch, statusFilter, closurePage, caller) ==
    /\ currentPage' = IF pageToFetch # closurePage THEN pageToFetch ELSE currentPage
    /\ isLoading' = TRUE
    /\ error' = Null
    /\ inFlight' = inFlight \cup
          {[id |-> issued + 1,
            params |-> [page |-> pageToFetch, limit |-> PAGE_SIZE,
                        filter |-> OrUndefined(statusFilter)],
            term |-> statusFilter,
            prev |-> closurePage,
            caller |-> caller]}
    /\ issued' = issued + 1
    /\ lastIssued' = Outcome("pending", 0, 0)

\* The mount effect of AppointmentsPage, deps [fetchAppointments]: it runs
\* after the first render and again whenever fetchAppointments has changed.
AppointmentsMount ==
    /\ route = "appointments"
    /\ UNCHANGED formVars
    /\ ~AlreadyFetched
    /\ CanIssue
    /\ hasFetchedInitial' = TRUE
    /\ fetchAppointments(currentPage, selectedStatus, currentPage, "other")
    /\ timerFetches' = 0
    /\ lastEvent' = Quiet
    /\ UNCHANGED <<route, budget, authVars, sellers, appointments, total, queryVars, deleteVars,
                   latestRequestRef, delay, lastLoadedPage>>

\* onChange of the status select.
statusOnChange(status) ==
    /\ route = "appointments"
    /\ UNCHANGED formVars
    /\ hasFetchedInitial
    /\ status # selectedStatus
    /\ CanIssue
    /\ selectedStatus' = status
    /\ fetchAppointments(1, status, currentPage, "other")
    /\ timerFetches' = 0
    /\ lastEvent' = Event("statusOnChange", 0)
    /\ UNCHANGED <<route, budget, authVars, sellers, appointments, total, search, lastFetchedSearch,
                   deleteVars, refVars, delay, lastLoadedPage>>

\* handlePageChange(page) of AppointmentsPage.
handlePageChangeAppointments(page) ==
    /\ route = "appointments"
    /\ UNCHANGED formVars
    /\ hasFetchedInitial
    /\ lastEvent' = IF PageChangeRejected(page) /\ ~isLoading
                    THEN Event("pageChangeRejected", page)
                    ELSE Quiet
    /\ timerFetches' = 0
    /\ IF PageChangeRejected(page)
       THEN UNCHANGED <<currentPage, isLoading, error, inFlight, issued, lastIssued>>
       ELSE /\ CanIssue
            /\ fetchAppointments(page, selectedStatus, currentPage, "handlePageChange")
    /\ UNCHANGED <<route, budget, authVars, sellers, appointments, total, queryVars, deleteVars,
                   refVars, delay, lastLoadedPage>>

handlePreviousPageAppointments ==
    /\ canGoPrevious /\ ~isLoading
    /\ handlePageChangeAppointments(currentPage - 1)

handleNextPageAppointments ==
    /\ canGoNext /\ ~isLoading
    /\ handlePageChangeAppointments(currentPage + 1)

\* What the handler awaiting fetchAppointments does when the fetch returns.
AfterFetchAppointments(r) ==
    isDeletingAppointment' = IF r.caller = "handleConfirmDelete" THEN FALSE ELSE isDeletingAppointment

\* The response of a list request of AppointmentsPage arrives.
fetchAppointmentsResolved(r, tot, pg) ==
    /\ route = "appointments"
    /\ UNCHANGED formVars
    /\ r \in inFlight
    /\ inFlight' = inFlight \ {r}
    /\ appointments' = [req |-> r.id,
                        rows |-> RowsOn(tot, Coalesce(pg, r.params.page), PAGE_SIZE)]
    /\ total' = tot
    /\ currentPage' = Coalesce(pg, r.params.page)
    /\ isLoading' = FALSE
    /\ lastLoadedPage' = Coalesce(pg, r.params.page)
    /\ lastIssued' = IF r.id = issued
                     THEN Outcome("ok", tot, Coalesce(pg, r.params.page))
                     ELSE lastIssued
    /\ AfterFetchAppointments(r)
    /\ lastEvent' = Event("resolved", 0)
    /\ UNCHANGED <<route, budget, authVars, sellers, queryVars, error, sellerPendingDeletion, isDeleting,
                   appointmentPendingDeletion, deleteCalls, refVars, delay, issued,
                   timerFetches>>

\* A list request of AppointmentsPage fails.
fetchAppointmentsRejected(r) ==
    /\ route = "appointments"
    /\ UNCHANGED formVars
    /\ r \in inFlight
    /\ inFlight' = inFlight \ {r}
    /\ error' = ErrLoadAppointments
    /\ currentPage' = r.prev
    /\ isLoading' = FALSE
    /\ lastIssued' = IF r.id = issued THEN Outcome("failed", 0, 0) ELSE lastIssued
    /\ AfterFetchAppointments(r)
    /\ lastEvent' = Event("rejected", IF r.caller = "handlePageChange"
                                               THEN r.params.page ELSE 0)
    /\ UNCHANGED <<route, budget, authVars, sellers, appointments, total, queryVars, sellerPendingDeletion,
                   isDeleting, appointmentPendingDeletion, deleteCalls, refVars, delay,
                   issued, lastLoadedPage, timerFetches>>

\* requestDeleteAppointment: the Remover button of a row.
requestDeleteAppointment(appointment) ==
    /\ route = "appointments"
    /\ UNCHANGED formVars
    /\ hasFetchedInitial
    /\ RowsShown(appointments)
    /\ appointmentPendingDeletion' = appointment
    /\ timerFetches' = 0
    /\ lastEvent' = Quiet
    /\ UNCHANGED <<route, budget, authVars, listVars, queryVars, sellerPendingDeletion, isDeleting,
                   isDeletingAppointment, deleteCalls, refVars, delay, inFlight,
                   issued, lastIssued, lastLoadedPage>>

\* handleConfirmDeleteAppointment up to its first await.
handleConfirmDeleteAppointment ==
    /\ route = "appointments"
    /\ UNCHANGED formVars
    /\ hasFetchedInitial
    /\ ConfirmEnabled(isDeletingAppointment)
    /\ IF NothingPending(appointmentPendingDeletion)
       THEN UNCHANGED <<isDeletingAppointment, deleteCalls>>
       ELSE /\ CanIssue
            /\ isDeletingAppointment' = WhileDeleting
            /\ deleteCalls' = deleteCalls \cup
                  {[item |-> appointmentPendingDeletion,
                    page |-> currentPage,
                    term |-> selectedStatus]}
    /\ timerFetches' = 0
    /\ lastEvent' = Quiet
    /\ UNCHANGED <<route, budget, authVars, listVars, queryVars, sellerPendingDeletion, isDeleting,
                   appointmentPendingDeletion, refVars, delay, inFlight,
                   issued, lastIssued, lastLoadedPage>>

\* handleCancelDeleteAppointment
handleCancelDeleteAppointment ==
    /\ route = "appointments"
    /\ UNCHANGED formVars
    /\ hasFetchedInitial
    /\ appointmentPendingDeletion' =
          AfterCancel(isDeletingAppointment, appointmentPendingDeletion)
    /\ timerFetches' = 0
    /\ lastEvent' = IF isDeletingAppointment THEN Event("cancelIgnored", 0) ELSE Quiet
    /\ UNCHANGED <<route, budget, authVars, listVars, queryVars, sellerPendingDeletion, isDeleting,
                   isDeletingAppointment, deleteCalls, refVars, delay, inFlight,
                   issued, lastIssued, lastLoadedPage>>

\* api.delete of AppointmentsPage succeeds.
deleteAppointmentResolved(d) ==
    /\ route = "appointments"
    /\ UNCHANGED formVars
    /\ d \in deleteCalls
    /\ deleteCalls' = deleteCalls \ {d}
    /\ appointmentPendingDeletion' = None
    /\ fetchAppointments(PageAfterDelete(d), d.term, d.page, "handleConfirmDelete")
    /\ lastEvent' = Quiet
    /\ UNCHANGED <<route, budget, authVars, sellers, appointments, total, queryVars, sellerPendingDeletion,
                   isDeleting, isDeletingAppointment, refVars, delay, lastLoadedPage,
                   timerFetches>>

\* api.delete of AppointmentsPage fails.
deleteAppointmentRejected(d) ==
    /\ route = "appointments"
    /\ UNCHANGED formVars
    /\ d \in deleteCalls
    /\ deleteCalls' = deleteCalls \ {d}
    /\ error' = ErrRemoveAppointment
    /\ isDeletingAppointment' = FALSE
    /\ lastEvent' = Event("deleteRejected", 0)
    /\ UNCHANGED <<route, budget, authVars, sellers, appointments, total, currentPage, isLoading, queryVars,
                   sellerPendingDeletion, isDeleting, appointmentPendingDeletion,
                   refVars, delay, inFlight, issued, lastIssued, lastLoadedPage,
                   timerFetches>>

NextAppointments ==
    \/ AppointmentsMount
    \/ \E status \in StatusChoices : statusOnChange(status)
    \/ \E page \in 0..(MaxTotalPages + 1) : handlePageChangeAppointments(page)
    \/ handlePreviousPageAppointments
    \/ handleNextPageAppointments
    \/ \E r \in inFlight : \E tot \in ServerTotals(PAGE_SIZE) :
          \E pg \in ServerPages(r.params.page, tot, PAGE_SIZE) :
             fetchAppointmentsResolved(r, tot, pg)
    \/ \E r \in inFlight : fetchAppointmentsRejected(r)
    \/ \E appointment \in ItemIds : requestDeleteAppointment(appointment)
    \/ handleConfirmDeleteAppointment
    \/ handleCancelDeleteAppointment
    \/ \E d \in deleteCalls : deleteAppointmentResolved(d)
    \/ \E d \in deleteCalls : deleteAppointmentRejected(d)

Next == NextSellers \/ NextAppointments

Spec == Init /\ [][Next]_vars

\* The same program, observed for one more list request.
InitLong == Construct(MaxRequests + 1) /\ ConstructAuth(NoAuth, "/appointments")

SpecLong == InitLong /\ [][Next]_vars

---------------------------------------------------------------------------
\* The sellers list under the scheduling of the browser: an effect that is due
\* runs, a timer that stays armed expires, and the remote collaborator answers
\* every call.

\* The steps that are not the user's: the mount effect, the debounce timer and
\* the responses.
SystemStep ==
    \/ SellersMount
    \/ DebounceTimeout
    \/ \E r \in inFlight : \E tot \in ServerTotals(SELLERS_PAGE_SIZE) :
          \E pg \in ServerPages(r.params.page, tot, SELLERS_PAGE_SIZE) :
             fetchSellersResolved(r, tot, pg)
    \/ \E r \in inFlight : fetchSellersRejected(r)
    \/ \E d \in deleteCalls : deleteSellerResolved(d)
    \/ \E d \in deleteCalls : deleteSellerRejected(d)

InitSellers == Init /\ route = "sellers"

SpecSellersLive ==
    /\ InitSellers
    /\ [][NextSellers]_vars
    /\ WF_vars(SystemStep)

---------------------------------------------------------------------------
\* The create / edit forms of both pages.

FormItemIds == {1, 2}           \* the ids of the items of the rows, two of them

\* SellersPage.openModal(seller): the Novo vendedor button (seller = None) or
\* the edit button of a row.
openModalSellers(seller) ==
    /\ route = "sellers"
    /\ hasFetchedInitial
    /\ seller # None => RowsShown(sellers)
    /\ editingId' = seller
    /\ isModalOpen' = TRUE
    /\ timerFetches' = 0
    /\ lastEvent' = Quiet
    /\ UNCHANGED <<route, budget, authVars, listVars, queryVars, deleteVars, refVars, delay, inFlight,
                   issued, lastIssued, lastLoadedPage, saveCalls>>

\* onClose of the Modal of either page.
closeModal ==
    /\ hasFetchedInitial
    /\ isModalOpen
    /\ isModalOpen' = FALSE
    /\ timerFetches' = 0
    /\ lastEvent' = Quiet
    /\ UNCHANGED <<route, budget, authVars, listVars, queryVars, deleteVars, refVars, delay, inFlight,
                   issued, lastIssued, lastLoadedPage, editingId, saveCalls>>

\* SellersPage.handleSubmit up to its await of api.patch / api.post.  The call
\* keeps the values of the render it was made from for the fetch that follows.
handleSubmitSellers ==
    /\ route = "sellers"
    /\ hasFetchedInitial
    /\ isModalOpen
    /\ CanIssue
    /\ error' = Null
    /\ saveCalls' = saveCalls \cup
          {[edit |-> editingId,
            page |-> currentPage,
            term |-> IF isSearchDirty THEN search ELSE lastFetchedSearch]}
    /\ timerFetches' = 0
    /\ lastEvent' = Quiet
    /\ UNCHANGED <<route, budget, authVars, sellers, appointments, total, currentPage, isLoading,
                   queryVars, deleteVars, refVars, delay, inFlight, issued, lastIssued,
                   lastLoadedPage, isModalOpen, editingId>>

\* The page SellersPage.handleSubmit fetches after the save d.
PageAfterSave(d) == IF d.edit # None THEN d.page ELSE 1

\* api.patch / api.post of SellersPage succeeds: the modal closes and the list
\* is fetched again.
saveSellerResolved(d) ==
    /\ route = "sellers"
    /\ d \in saveCalls
    /\ saveCalls' = saveCalls \ {d}
    /\ isModalOpen' = FALSE
    /\ fetchSellers(PageAfterSave(d), d.term, d.page, "handleSubmit")
    /\ lastEvent' = Event("saveResolved", 0)
    /\ UNCHANGED <<route, budget, authVars, sellers, appointments, total, queryVars, deleteVars,
                   hasFetchedInitial, lastLoadedPage, timerFetches, editingId>>
    /\ DebounceEffect(delay)

\* api.patch / api.post of SellersPage fails: the catch of handleSubmit.
saveSellerRejected(d) ==
    /\ route = "sellers"
    /\ d \in saveCalls
    /\ saveCalls' = saveCalls \ {d}
    /\ error' = ErrSaveSeller
    /\ lastEvent' = Event("saveRejected", 0)
    /\ UNCHANGED <<route, budget, authVars, sellers, appointments, total, currentPage, isLoading,
                   queryVars, deleteVars, refVars, delay, inFlight, issued, lastIssued,
                   lastLoadedPage, timerFetches, isModalOpen, editingId>>

\* AppointmentsPage.openModal(appointment)
openModalAppointments(appointment) ==
    /\ route = "appointments"
    /\ hasFetchedInitial
    /\ appointment # None => RowsShown(appointments)
    /\ editingId' = appointment
    /\ isModalOpen' = TRUE
    /\ timerFetches' = 0
    /\ lastEvent' = Quiet
    /\ UNCHANGED <<route, budget, authVars, listVars, queryVars, deleteVars, refVars, delay, inFlight,
                   issued, lastIssued, lastLoadedPage, saveCalls>>

\* AppointmentsPage.handleSubmit up to its await of api.patch / api.post.
handleSubmitAppointments ==
    /\ route = "appointments"
    /\ hasFetchedInitial
    /\ isModalOpen
    /\ CanIssue
    /\ saveCalls' = saveCalls \cup
          {[edit |-> editingId, page |-> currentPage, term |-> selectedStatus]}
    /\ timerFetches' = 0
    /\ lastEvent' = Quiet
    /\ UNCHANGED <<route, budget, authVars, listVars, queryVars, deleteVars, refVars, delay, inFlight,
                   issued, lastIssued, lastLoadedPage, isModalOpen, editingId>>

\* api.patch / api.post of AppointmentsPage succeeds.
saveAppointmentResolved(d) ==
    /\ route = "appointments"
    /\ d \in saveCalls
    /\ saveCalls' = saveCalls \ {d}
    /\ isModalOpen' = FALSE
    /\ fetchAppointments(d.page, d.term, d.page, "handleSubmit")
    /\ lastEvent' = Event("saveResolved", 0)
    /\ UNCHANGED <<route, budget, authVars, sellers, appointments, total, queryVars, deleteVars,
                   refVars, delay, lastLoadedPage, timerFetches, editingId>>

\* api.patch / api.post of AppointmentsPage fails.
saveAppointmentRejected(d) ==
    /\ route = "appointments"
    /\ d \in saveCalls
    /\ saveCalls' = saveCalls \ {d}
    /\ error' = ErrSaveAppointment
    /\ lastEvent' = Event("saveRejected", 0)
    /\ UNCHANGED <<route, budget, authVars, sellers, appointments, total, currentPage, isLoading,
                   queryVars, deleteVars, refVars, delay, inFlight, issued, lastIssued,
                   lastLoadedPage, timerFetches, isModalOpen, editingId>>

\* The operations of the lists that the forms and the delete dialog work
\* with: the first fetch, the search box, the status filter, the page change
\* and the responses.
NextLists ==
    \/ SellersMount
    \/ \E value \in Terms : handleSearchChange(value)
    \/ DebounceTimeout
    \/ \E page \in 1..MaxTotalPages : handlePageChangeSellers(page)
    \/ \E r \in inFlight : \E tot \in ServerTotals(SELLERS_PAGE_SIZE) :
          \E pg \in ServerPages(r.params.page, tot, SELLERS_PAGE_SIZE) :
             fetchSellersResolved(r, tot, pg)
    \/ \E r \in inFlight : fetchSellersRejected(r)
    \/ AppointmentsMount
    \/ \E status \in StatusChoices : statusOnChange(status)
    \/ \E page \in 1..MaxTotalPages : handlePageChangeAppointments(page)
    \/ \E r \in inFlight : \E tot \in ServerTotals(PAGE_SIZE) :
          \E pg \in ServerPages(r.params.page, tot, PAGE_SIZE) :
             fetchAppointmentsResolved(r, tot, pg)
    \/ \E r \in inFlight : fetchAppointmentsRejected(r)

NextForms ==
    \/ NextLists
    \/ \E seller \in FormItemIds : requestDeleteSeller(seller)
    \/ handleConfirmDeleteSeller
    \/ handleCancelDeleteSeller
    \/ \E d \in deleteCalls : deleteSellerResolved(d)
    \/ \E d \in deleteCalls : deleteSellerRejected(d)
    \/ \E appointment \in FormItemIds : requestDeleteAppointment(appointment)
    \/ handleConfirmDeleteAppointment
    \/ handleCancelDeleteAppointment
    \/ \E d \in deleteCalls : deleteAppointmentResolved(d)
    \/ \E d \in deleteCalls : deleteAppointmentRejected(d)
    \/ \E seller \in {None} \cup FormItemIds : openModalSellers(seller)
    \/ \E appointment \in {None} \cup FormItemIds : openModalAppointments(appointment)
    \/ closeModal
    \/ handleSubmitSellers
    \/ handleSubmitAppointments
    \/ \E d \in saveCalls : saveSellerResolved(d)
    \/ \E d \in saveCalls : saveSellerRejected(d)
    \/ \E d \in saveCalls : saveAppointmentResolved(d)
    \/ \E d \in saveCalls : saveAppointmentRejected(d)

\* The pages with their forms and two row items, observed for one list
\* request fewer.
InitForms == Construct(MaxRequests - 1) /\ ConstructAuth(NoAuth, "/appointments")

SpecForms == InitForms /\ [][NextForms]_vars

---------------------------------------------------------------------------
\* The pagination of both lists, against a collection of any size.

\* Every total from 0 to a little more than MaxTotalPages pages.
DenseTotals(ps) == 0..(MaxTotalPages * ps + 5)

NextPaging ==
    \/ SellersMount
    \/ \E page \in 0..(MaxTotalPages + 2) : handlePageChangeSellers(page)
    \/ handlePreviousPageSellers
    \/ handleNextPageSellers
    \/ \E r \in inFlight : \E tot \in DenseTotals(SELLERS_PAGE_SIZE) :
          \E pg \in ServerPages(r.params.page, tot, SELLERS_PAGE_SIZE) :
             fetchSellersResolved(r, tot, pg)
    \/ \E r \in inFlight : fetchSellersRejected(r)
    \/ AppointmentsMount
    \/ \E page \in 0..(MaxTotalPages + 2) : handlePageChangeAppointments(page)
    \/ handlePreviousPageAppointments
    \/ handleNextPageAppointments
    \/ \E r \in inFlight : \E tot \in DenseTotals(PAGE_SIZE) :
          \E pg \in ServerPages(r.params.page, tot, PAGE_SIZE) :
             fetchAppointmentsResolved(r, tot, pg)
    \/ \E r \in inFlight : fetchAppointmentsRejected(r)

SpecPaging == Init /\ [][NextPaging]_vars

---------------------------------------------------------------------------
\* The Anterior / Proxima buttons of both lists, against a collection that
\* grows and shrinks by several pages between two requests.

\* The pages of the largest collection.
DeepPages == MaxTotalPages + 2

\* The totals of 0..DeepPages pages, the last page holding 5 rows.
DeepTotals(ps) == {0} \cup {(p - 1) * ps + 5 : p \in 1..DeepPages}

NextDeepPaging ==
    \/ SellersMount
    \/ \E page \in 1..DeepPages : handlePageChangeSellers(page)
    \/ handlePreviousPageSellers
    \/ handleNextPageSellers
    \/ \E r \in inFlight : \E tot \in DeepTotals(SELLERS_PAGE_SIZE) :
          \E pg \in ServerPages(r.params.page, tot, SELLERS_PAGE_SIZE) :
             fetchSellersResolved(r, tot, pg)
    \/ \E r \in inFlight : fetchSellersRejected(r)
    \/ AppointmentsMount
    \/ \E page \in 1..DeepPages : handlePageChangeAppointments(page)
    \/ handlePreviousPageAppointments
    \/ handleNextPageAppointments
    \/ \E r \in inFlight : \E tot \in DeepTotals(PAGE_SIZE) :
          \E pg \in ServerPages(r.params.page, tot, PAGE_SIZE) :
             fetchAppointmentsResolved(r, tot, pg)
    \/ \E r \in inFlight : fetchAppointmentsRejected(r)

SpecDeepPaging == Init /\ [][NextDeepPaging]_vars

---------------------------------------------------------------------------
\* The delete dialog of both lists, against a collection whose last page holds
\* one row or has just lost it.

\* The totals of 0..MaxTotalPages - 1 full pages, and of one row more.
LastItemTotals(ps) ==
    {(p - 1) * ps : p \in 1..MaxTotalPages} \cup {(p - 1) * ps + 1 : p \in 1..MaxTotalPages}

NextLastItem ==
    \/ SellersMount
    \/ \E page \in 1..MaxTotalPages : handlePageChangeSellers(page)
    \/ \E r \in inFlight : \E tot \in LastItemTotals(SELLERS_PAGE_SIZE) :
          \E pg \in ServerPages(r.params.page, tot, SELLERS_PAGE_SIZE) :
             fetchSellersResolved(r, tot, pg)
    \/ \E r \in inFlight : fetchSellersRejected(r)
    \/ \E seller \in FormItemIds : requestDeleteSeller(seller)
    \/ handleConfirmDeleteSeller
    \/ handleCancelDeleteSeller
    \/ \E d \in deleteCalls : deleteSellerResolved(d)
    \/ \E d \in deleteCalls : deleteSellerRejected(d)
    \/ AppointmentsMount
    \/ \E page \in 1..MaxTotalPages : handlePageChangeAppointments(page)
    \/ \E r \in inFlight : \E tot \in LastItemTotals(PAGE_SIZE) :
          \E pg \in ServerPages(r.params.page, tot, PAGE_SIZE) :
             fetchAppointmentsResolved(r, tot, pg)
    \/ \E r \in inFlight : fetchAppointmentsRejected(r)
    \/ \E appointment \in FormItemIds : requestDeleteAppointment(appointment)
    \/ handleConfirmDeleteAppointment
    \/ handleCancelDeleteAppointment
    \/ \E d \in deleteCalls : deleteAppointmentResolved(d)
    \/ \E d \in deleteCalls : deleteAppointmentRejected(d)

SpecLastItem == Init /\ [][NextLastItem]_vars

---------------------------------------------------------------------------
\* AuthProvider (src/context/AuthContext.tsx)

Tokens == {"t1", "t2"}          \* the accessToken of a login response
Users == {"u1", "u2"}           \* the user of a login response
Emails == {"ana", "bia"}        \* the emails typed
Passwords == {"pw"}             \* the passwords typed

\* The variables of the list pages, but for lastEvent.
pagesVars == <<route, listVars, queryVars, deleteVars, refVars, delay, inFlight, issued,
               lastIssued, lastLoadedPage, timerFetches, budget, formVars>>

\* lib/auth-storage: persists, retrieves and clears a {token, user} pair.
\* What the storage holds after setStoredAuth and after clearStoredAuth, and
\* what getStoredAuth returns.
setStoredAuth(token, user) == StoredAuth(token, user)
clearStoredAuth == NoAuth
getStoredAuth == storedAuth

\* The context value: user: authState?.user ?? null, token: authState?.token ?? null
user == IF authState = NoAuth THEN Null ELSE authState.user
token == IF authState = NoAuth THEN Null ELSE authState.token

\* The mount effect of AuthProvider.
AuthMount ==
    /\ ~authMounted
    /\ auth' = [auth EXCEPT
                  !.mounted = TRUE,
                  !.authState = IF getStoredAuth # NoAuth THEN getStoredAuth ELSE @,
                  !.loading = FALSE]
    /\ lastEvent' = Quiet
    /\ UNCHANGED pagesVars

\* login(email, password) up to its await of api.post.
login(email, password) ==
    /\ authMounted
    /\ Len(settled) < MaxLogins
    /\ auth' = [auth EXCEPT
                  !.loginCalls = @ \cup {[id |-> Len(settled) + 1,
                                          email |-> email,
                                          password |-> password]},
                  !.settled = Append(@, "pending"),
                  !.loggedOut = FALSE]
    /\ lastEvent' = Event("login", Len(settled) + 1)
    /\ UNCHANGED pagesVars

\* A login that leaves the context as it is.
AuthKeptAfterLogin(accessToken, loggedUser) == authState

\* setAuthState({ token: data.accessToken, user: data.user })
AuthAfterLogin(accessToken, loggedUser) == StoredAuth(accessToken, loggedUser)

\* api.post('/auth/login') succeeds: the rest of login.
loginResolved(c, accessToken, loggedUser) ==
    /\ c \in loginCalls
    /\ auth' = [auth EXCEPT
                  !.loginCalls = @ \ {c},
                  !.storedAuth = setStoredAuth(accessToken, loggedUser),
                  !.authState = AuthAfterLogin(accessToken, loggedUser),
                  !.path = "/dashboard",
                  !.settled[c.id] = "fulfilled"]
    /\ lastEvent' = Event("loginResolved", c.id)
    /\ UNCHANGED pagesVars

\* A login that catches the failure of the call.
FailureSwallowed == "fulfilled"

\* The promise of login when api.post fails: login has no catch.
FailurePropagated == "rejected"

\* api.post('/auth/login') fails: the await throws, and login with it.
loginRejected(c) ==
    /\ c \in loginCalls
    /\ auth' = [auth EXCEPT
                  !.loginCalls = @ \ {c},
                  !.settled[c.id] = FailurePropagated]
    /\ lastEvent' = Event("loginRejected", c.id)
    /\ UNCHANGED pagesVars

\* logout()
logout ==
    /\ authMounted
    /\ auth' = [auth EXCEPT
                  !.storedAuth = clearStoredAuth,
                  !.authState = NoAuth,
                  !.path = "/login",
                  !.loggedOut = TRUE]
    /\ lastEvent' = Event("logout", 0)
    /\ UNCHANGED pagesVars

NextAuth ==
    \/ AuthMount
    \/ \E email \in Emails : \E password \in Passwords : login(email, password)
    \/ \E c \in loginCalls : \E accessToken \in Tokens : \E loggedUser \in Users :
          loginResolved(c, accessToken, loggedUser)
    \/ \E c \in loginCalls : loginRejected(c)
    \/ logout

\* AuthProvider alone, in a browser that holds a session or none, opened at
\* the login page or at a list page.
InitAuth ==
    /\ Construct(0)
    /\ \E stored \in {NoAuth, StoredAuth("t1", "u1")} :
          \E at \in {"/login", "/appointments"} : ConstructAuth(stored, at)

SpecAuth == InitAuth /\ [][NextAuth]_vars

---------------------------------------------------------------------------
\* Properties

\* This step delivers the response (TRUE) or the failure (FALSE) of the list
\* request r.
Delivers(r, ok) ==
    /\ r \in inFlight
    /\ inFlight' = inFlight \ {r}
    /\ lastEvent'.op \in (IF ok THEN {"resolved", "staleResolved"}
                                ELSE {"rejected", "staleRejected"})

\* The list request issued last is in flight.
LatestInFlight == \E r \in inFlight : r.id = issued

\* C1: sellers list: the successful completion of a fetch whose request id is
\* not the latest issued id changes none of sellers, total, currentPage,
\* lastFetchedSearch, error and isLoading.
C1_StaleResponseDiscarded ==
    [][\A r \in inFlight :
          (route = "sellers" /\ r.id # latestRequestRef /\ Delivers(r, TRUE))
             => UNCHANGED <<sellers, total, currentPage, lastFetchedSearch, error, isLoading>>]_vars

\* A superseded response has just been delivered to the sellers list, after
\* the response of the latest request was applied.
C1_Witness ==
    /\ route = "sellers"
    /\ lastEvent.op = "staleResolved"
    /\ lastIssued.st = "ok"
    /\ sellers.req = latestRequestRef

\* C2: sellers list: once every list request has resolved and the last-issued
\* one succeeded, the displayed sellers, total and current page are those of
\* the response to the last-issued request.
C2_LastIssuedWinsSellers ==
    (route = "sellers" /\ inFlight = {} /\ lastIssued.st = "ok")
       => /\ sellers.req = issued
          /\ total = lastIssued.total
          /\ currentPage = lastIssued.page

\* Two overlapping requests resolved out of order: the older response came
\* last, and the newer one is displayed.
C2_Witness ==
    /\ route = "sellers"
    /\ inFlight = {}
    /\ issued >= 2
    /\ lastIssued.st = "ok"
    /\ lastEvent.op = "staleResolved"
    /\ sellers.req = issued
    /\ total = lastIssued.total
    /\ currentPage = lastIssued.page

\* C3: appointments list: once every list request has resolved and the
\* last-issued one succeeded, the displayed appointments, total and page are
\* those of the last-issued request.
C3_LastIssuedWinsAppointments ==
    (route = "appointments" /\ inFlight = {} /\ lastIssued.st = "ok")
       => /\ appointments.req = issued
          /\ total = lastIssued.total
          /\ currentPage = lastIssued.page

\* C4: sellers search debounce: the calls of handleSearchChange made within
\* one debounce window trigger exactly one fetch, carrying the final term and
\* page 1: with no further user action the timer issues no second fetch,
\* whatever the current page and whether the first fetch is pending, succeeded
\* or failed.
C4_OneDebouncedFetch ==
    /\ timerFetches <= 1
    /\ lastEvent.op = "debounce" =>
          \E r \in inFlight : /\ r.id = latestRequestRef
                              /\ r.term = search
                              /\ r.params.page = 1

\* C5: after the mount, isLoading is true exactly while the last-issued list
\* request is in flight.
C5_LoadingIffLatestInFlight ==
    hasFetchedInitial => (isLoading <=> LatestInFlight)

\* C7: once every list request has resolved, the current page is the page of
\* the most recent applied successful response, or the initial page 1 if none
\* succeeded.
C7_PageWasLoaded ==
    (hasFetchedInitial /\ inFlight = {}) => currentPage = lastLoadedPage

\* C6 as stated: the failure of a fetch issued by goToPage(n) leaves the
\* current page equal to the value it had before the call, not n.
C6_FailedPageChangeReverts ==
    [][\A r \in inFlight :
          (r.caller = "handlePageChange" /\ Delivers(r, FALSE))
             => (currentPage' = r.prev /\ currentPage' # r.params.page)]_vars

\* C6 amended: the same, in the sellers list for a request that still holds
\* the latest token when it fails (a superseded failure leaves the page as it
\* is); in the appointments list for every request.
C6_FailedLatestPageChangeReverts ==
    [][/\ \A r \in inFlight :
             (/\ r.caller = "handlePageChange"
              /\ Delivers(r, FALSE)
              /\ (route = "sellers" => r.id = latestRequestRef))
                => (currentPage' = r.prev /\ currentPage' # r.params.page)
       /\ \A q \in inFlight :
             (/\ route = "sellers"
              /\ q.id # latestRequestRef
              /\ Delivers(q, FALSE))
                => currentPage' = currentPage]_vars

\* The fetch of a goToPage(n) has just failed and the page is not n.
C6_Witness ==
    /\ lastEvent.op = "rejected"
    /\ lastEvent.n >= 1
    /\ currentPage # lastEvent.n
    /\ error \in {ErrLoadSellers, ErrLoadAppointments}

\* The program state a handler can change: everything but the history.
programVars == <<route, listVars, queryVars, deleteVars, refVars, delay, inFlight, formVars,
                 authVars>>

\* C8: goToPage(n) changes no state variable and issues no request whenever
\* n < 1, n > totalPages, n is the current page, or the list is loading.
\* A step that changes something is no such call: it either carries the label
\* of another handler (a page change leaves lastEvent at Quiet or at
\* "pageChangeRejected"), or it is not handlePageChange(page) for any page
\* the guard rejects.
C8_RejectedPageChangeIsNoOp ==
    [][\/ UNCHANGED <<programVars, issued>>
       \/ lastEvent'.op \notin {"other", "pageChangeRejected"}
       \/ \A page \in 0..(MaxTotalPages + 1) :
            (/\ page < 1 \/ page > totalPages \/ page = currentPage \/ isLoading
             /\ handlePageChangeSellers(page) \/ handlePageChangeAppointments(page))
               => UNCHANGED <<programVars, issued>>]_vars

\* goToPage(n) was just called with n beyond the last page, while the list
\* was not loading.
C8_Witness ==
    /\ lastEvent.op = "pageChangeRejected"
    /\ lastEvent.n > totalPages
    /\ lastEvent.n # currentPage
    /\ ~isLoading
    /\ total > 0

\* C9: the status select set to v sets the current page to 1 and issues
\* exactly one fetch, with page 1 and status v, and with no status parameter
\* when v is the empty choice.
C9_StatusChangeFetchesPageOne ==
    [][\A v \in StatusChoices :
          statusOnChange(v)
             => /\ currentPage' = 1
                /\ selectedStatus' = v
                /\ issued' = issued + 1
                /\ \E r \in inFlight' :
                      /\ r \notin inFlight
                      /\ inFlight' = inFlight \cup {r}
                      /\ r.params = [page |-> 1, limit |-> PAGE_SIZE,
                                     filter |-> IF v = "" THEN Undefined ELSE v]]_vars

\* The status was just set to NO_SHOW from page 2: the page is 1 and the
\* request is in flight.
C9_Witness ==
    /\ lastEvent.op = "statusOnChange"
    /\ selectedStatus = "NO_SHOW"
    /\ currentPage = 1
    /\ \E r \in inFlight : /\ r.id = issued
                           /\ r.prev = 2
                           /\ r.params.page = 1
                           /\ r.params.filter = "NO_SHOW"

\* The status was just set back to the empty choice: the request carries no
\* status parameter.
C9_WitnessAll ==
    /\ lastEvent.op = "statusOnChange"
    /\ selectedStatus = ""
    /\ \E r \in inFlight : r.id = issued /\ r.params.filter = Undefined

\* C10: a cancel of the delete confirmation while the delete handler runs
\* changes nothing; while a delete call is in flight the pending item stays
\* set; a cancel while no delete handler runs clears the pending item.
C10_CancelIgnoredWhileDeleting ==
    /\ [](deleteCalls # {} =>
            IF route = "sellers"
            THEN isDeleting /\ sellerPendingDeletion # None
            ELSE isDeletingAppointment /\ appointmentPendingDeletion # None)
    /\ [][/\ handleCancelDeleteSeller =>
               IF isDeleting THEN UNCHANGED programVars
                             ELSE sellerPendingDeletion' = None
          /\ handleCancelDeleteAppointment =>
               IF isDeletingAppointment THEN UNCHANGED programVars
                                        ELSE appointmentPendingDeletion' = None]_vars

\* Cancel was just called while the delete call was in flight, and the item
\* is still pending.
C10_Witness ==
    /\ lastEvent.op = "cancelIgnored"
    /\ deleteCalls # {}
    /\ IF route = "sellers"
       THEN isDeleting /\ sellerPendingDeletion # None
       ELSE isDeletingAppointment /\ appointmentPendingDeletion # None

\* The item of the confirmation dialog of the mounted page.
pendingDeletion ==
    IF route = "sellers" THEN sellerPendingDeletion ELSE appointmentPendingDeletion

\* C11: a remote delete call is issued only by a confirm, for the item that a
\* delete request put in the dialog; a confirm with no pending item issues no
\* call; an item becomes pending only by a delete request for it.
C11_DeleteOnlyAfterConfirmation ==
    [][/\ \A d \in deleteCalls' \ deleteCalls :
             /\ handleConfirmDeleteSeller \/ handleConfirmDeleteAppointment
             /\ pendingDeletion # None
             /\ d.item = pendingDeletion
       /\ (/\ pendingDeletion = None
           /\ handleConfirmDeleteSeller \/ handleConfirmDeleteAppointment)
             => deleteCalls' = deleteCalls
       /\ (pendingDeletion' # None /\ pendingDeletion' # pendingDeletion)
             => \/ requestDeleteSeller(pendingDeletion')
                \/ requestDeleteAppointment(pendingDeletion')]_vars

\* The delete call of item 2 is in flight, after item 1 was first requested.
C11_Witness ==
    /\ pendingDeletion = 2
    /\ \E d \in deleteCalls : d.item = 2
    /\ isDeleting \/ isDeletingAppointment

\* C12: the failure of a create, update or delete call changes nothing of the
\* list (items, total, page, requests) and sets only the error message; for a
\* delete the deleting flag returns to false and the pending item stays.
C12_FailedMutationLeavesList ==
    [][/\ \A d \in saveCalls :
             (saveCalls' = saveCalls \ {d} /\ lastEvent'.op = "saveRejected")
                => /\ UNCHANGED <<sellers, appointments, total, currentPage, isLoading,
                                  queryVars, deleteVars, refVars, delay, inFlight, issued,
                                  isModalOpen, editingId>>
                   /\ error' = IF route = "sellers" THEN "Erro ao salvar vendedor."
                                                    ELSE "Erro ao salvar call."
       /\ \A d \in deleteCalls :
             (deleteCalls' = deleteCalls \ {d} /\ lastEvent'.op = "deleteRejected")
                => /\ UNCHANGED <<sellers, appointments, total, currentPage, isLoading,
                                  queryVars, refVars, delay, inFlight, issued, formVars,
                                  sellerPendingDeletion, appointmentPendingDeletion>>
                   /\ error' = IF route = "sellers" THEN "Erro ao remover vendedor."
                                                    ELSE "Erro ao remover call."
                   /\ ~isDeleting' /\ ~isDeletingAppointment']_vars

\* The update of a row has just failed, with the list of page 1 shown.
C12_Witness ==
    /\ lastEvent.op = "saveRejected"
    /\ editingId # None
    /\ isModalOpen
    /\ error \in {"Erro ao salvar vendedor.", "Erro ao salvar call."}
    /\ sellers.rows + appointments.rows > 0

\* C13: the list request that follows a successful create, update or delete
\* asks for the page of the last successful response and, in the sellers
\* list, for the search term of the last successful response.
C13_RefetchUsesAppliedQuery ==
    [][\A r \in inFlight' \ inFlight :
          r.caller \in {"handleSubmit", "handleConfirmDelete"}
             => /\ r.params.page = lastLoadedPage
                /\ route = "sellers" => r.term = lastFetchedSearch]_vars

\* C14: sellers list: a goToPage(n) that is not a no-op issues a request for
\* page n with the applied search term lastFetchedSearch.
C14_PageChangeUsesAppliedSearch ==
    [][\A page \in 0..(MaxTotalPages + 1) :
          (handlePageChangeSellers(page) /\ inFlight' # inFlight)
             => \E r \in inFlight' \ inFlight :
                   r.params.page = page /\ r.term = lastFetchedSearch]_vars

\* C15: when the successful response of the last-issued list request is
\* delivered, the rows, total and page are those of the response and error is
\* null.
C15_LatestSuccessClearsError ==
    [][\A r \in inFlight :
          (r.id = issued /\ Delivers(r, TRUE))
             => /\ (IF route = "sellers" THEN sellers' ELSE appointments').req = r.id
                /\ total' = lastIssued'.total
                /\ currentPage' = lastIssued'.page
                /\ error' = Null]_vars

\* C16: sellers list: the failure of a superseded request sets no error, does
\* not change the page and does not clear the loading flag.
C16_StaleFailureSwallowed ==
    [][\A r \in inFlight :
          (route = "sellers" /\ r.id # latestRequestRef /\ Delivers(r, FALSE))
             => UNCHANGED <<error, currentPage, isLoading>>]_vars

\* A superseded request has just failed while the newer one is loading.
C16_Witness ==
    /\ route = "sellers"
    /\ lastEvent.op = "staleRejected"
    /\ isLoading
    /\ error = Null
    /\ LatestInFlight

\* C17: the failure of the last-issued list request leaves the user-facing
\* message in error and loading false, and the handler that awaited the fetch
\* runs on.
C17_LatestFailureEndsInErrorState ==
    [][\A r \in inFlight :
          (r.id = issued /\ Delivers(r, FALSE))
             => /\ error' = IF route = "sellers"
                            THEN "Nao foi possivel carregar os vendedores."
                            ELSE "Nao foi possivel carregar as calls."
                /\ isLoading' = FALSE
                /\ r.caller = "handleConfirmDelete"
                      => ~isDeleting' /\ ~isDeletingAppointment']_vars

\* The last-issued list request has just failed, with nothing else in flight.
C17_Witness ==
    /\ lastEvent.op = "rejected"
    /\ lastIssued.st = "failed"
    /\ ~isLoading
    /\ error \in {"Nao foi possivel carregar os vendedores.",
                  "Nao foi possivel carregar as calls."}
    /\ inFlight = {}
    /\ issued >= 2

\* C18: totalPages is the least number n >= 1 of pages of PageSize rows that
\* hold total rows, i.e. max(1, ceil(total / PageSize)).
C18_TotalPages ==
    /\ total >= 0
    /\ totalPages >= 1
    /\ totalPages * PageSize >= total
    /\ totalPages > 1 => (totalPages - 1) * PageSize < total

\* A response with a total of exactly two pages has been applied.
C18_Witness ==
    /\ lastEvent.op = "resolved"
    /\ total = 2 * PageSize
    /\ totalPages = 2

\* C19: the page shown lies in 1..totalPages in every state, and the request
\* of an accepted goToPage(n) asks for page n.
C19_ShownPageInRange ==
    /\ [](shownPage >= 1 /\ shownPage <= totalPages)
    /\ [][\A page \in 0..(MaxTotalPages + 2) :
             (/\ handlePageChangeSellers(page) \/ handlePageChangeAppointments(page)
              /\ inFlight' # inFlight)
                => \E r \in inFlight' \ inFlight : r.params.page = page]_vars

\* The server answered with a page beyond the last page of the new total.
C19_Witness ==
    /\ lastEvent.op = "resolved"
    /\ total > 0
    /\ currentPage > totalPages
    /\ shownPage = totalPages

\* C20: with total >= 1 and the displayed page p, showingFrom is
\* (p - 1) * PageSize + 1 and showingTo is min(p * PageSize, total), so that
\* 1 <= showingFrom <= showingTo <= total; with total = 0 both are 0.
C20_ShowingRange ==
    IF total = 0
    THEN showingFrom = 0 /\ showingTo = 0
    ELSE /\ effectivePage \in 1..totalPages
         /\ showingFrom = (effectivePage - 1) * PageSize + 1
         /\ showingTo = IF effectivePage * PageSize <= total
                        THEN effectivePage * PageSize ELSE total
         /\ 1 <= showingFrom
         /\ showingFrom <= showingTo
         /\ showingTo <= total

\* 45 appointments, 20 to a page: page 3 of 3 shows 41 to 45.
C20_Witness ==
    /\ route = "appointments"
    /\ total = 45
    /\ totalPages = 3
    /\ currentPage = 3
    /\ showingFrom = 41
    /\ showingTo = 45

\* C21: sellers list: every step that sends a list request raises
\* latestRequestRef by exactly one and gives the request the raised value, no
\* other step changes latestRequestRef, and no two requests carry the same
\* token: the requests in flight have distinct tokens, none above
\* latestRequestRef.
C21_TokenStrictlyIncreases ==
    /\ [](route = "sellers" =>
            /\ latestRequestRef = issued
            /\ \A r \in inFlight : r.id >= 1 /\ r.id <= latestRequestRef
            /\ \A r, q \in inFlight : r.id = q.id => r = q)
    /\ [][route = "sellers" =>
            /\ \A r \in inFlight' \ inFlight :
                  /\ latestRequestRef' = latestRequestRef + 1
                  /\ r.id = latestRequestRef'
                  /\ inFlight' = inFlight \cup {r}
            /\ latestRequestRef' # latestRequestRef
                  => /\ latestRequestRef' = latestRequestRef + 1
                     /\ \E r \in inFlight' \ inFlight : r.id = latestRequestRef']_vars

\* Three list requests of the sellers list are in flight together, with the
\* tokens 1, 2 and 3.
C21_Witness ==
    /\ route = "sellers"
    /\ latestRequestRef = 3
    /\ {r.id : r \in inFlight} = {1, 2, 3}
    /\ Cardinality(inFlight) = 3

\* The rows displayed by the mounted page.
rowsShown == IF route = "sellers" THEN sellers.rows ELSE appointments.rows

\* C22: a confirm records the current page p; when its delete call succeeds,
\* the list request that follows asks for that same page p, also when p > 1
\* and the page shows its last row, and the step leaves the current page as
\* it is: no request of a delete handler asks for another page than that of
\* the render it was called from.
C22_DeleteRefetchesSamePage ==
    /\ [](\A r \in inFlight :
             r.caller = "handleConfirmDelete" => r.params.page = r.prev)
    /\ [][/\ \A d \in deleteCalls' \ deleteCalls : d.page = currentPage
          /\ \A d \in deleteCalls :
                (deleteSellerResolved(d) \/ deleteAppointmentResolved(d))
                   => /\ currentPage' = currentPage
                      /\ \E r \in inFlight' \ inFlight :
                            /\ r.caller = "handleConfirmDelete"
                            /\ r.params.page = d.page]_vars

\* The only row of page 2 was deleted: the list request of the delete handler
\* is in flight for page 2, and the current page is still 2.
C22_Witness ==
    /\ currentPage = 2
    /\ total = PageSize + 1
    /\ rowsShown = 1
    /\ deleteCalls = {}
    /\ pendingDeletion = None
    /\ \E r \in inFlight : /\ r.caller = "handleConfirmDelete"
                           /\ r.params.page = 2
                           /\ r.id = issued

\* C23: auth context: when a login call succeeds with a token and a user, the
\* stored auth and the in-memory auth both hold that token and user and the
\* location is /dashboard; after logout the stored auth is cleared, token and
\* user are null and the location is /login.
C23_LoginAndLogoutEffects ==
    [][/\ \A c \in loginCalls : \A t \in Tokens : \A u \in Users :
             loginResolved(c, t, u)
                => /\ storedAuth' = [token |-> t, user |-> u]
                   /\ authState' = [token |-> t, user |-> u]
                   /\ token' = t
                   /\ user' = u
                   /\ path' = "/dashboard"
       /\ logout
             => /\ storedAuth' = NoAuth
                /\ token' = Null
                /\ user' = Null
                /\ path' = "/login"]_vars

\* A login has just succeeded with the token t2 and the user u1: the context
\* and the storage hold them and the location is /dashboard.
C23_Witness ==
    /\ lastEvent.op = "loginResolved"
    /\ token = "t2"
    /\ user = "u1"
    /\ storedAuth = [token |-> "t2", user |-> "u1"]
    /\ path = "/dashboard"
    /\ loginCalls = {}

\* C24: sellers list: if every issued request resolves and the user stops
\* acting, the loading flag eventually becomes false and stays false (in a
\* behaviour in which the bound on the requests does not hold the timer back).
C24_LoadingEventuallyFalse ==
    <>[][SystemStep]_vars => <>[](CanIssue => ~isLoading)

\* C25: sellers list: when the fetch issued by the debounce timer fails, with
\* no user action since the timer expired, the failure leaves no timer armed,
\* whatever the page the search was typed on: the failing search is not
\* issued again.
C25_FailedSearchNotRetried ==
    [][\A r \in inFlight :
          (/\ route = "sellers"
           /\ timerFetches >= 1
           /\ r.id = issued
           /\ r.caller = "other"
           /\ Delivers(r, FALSE))
             => delay' = 0]_vars

\* The deleting flag of the mounted page.
deleting == IF route = "sellers" THEN isDeleting ELSE isDeletingAppointment

\* C26: at most one delete call is in flight at any time; while one is in
\* flight the deleting flag is set, which disables the confirm button, so
\* that a delete call is only ever issued while none is in flight and the
\* flag is down, for the item pending then.
C26_OneDeleteInFlight ==
    /\ [](Cardinality(deleteCalls) <= 1)
    /\ [](deleteCalls # {} => deleting /\ ~ConfirmEnabled(deleting))
    /\ [][\A d \in deleteCalls' \ deleteCalls :
             /\ deleteCalls = {}
             /\ ~deleting
             /\ deleting'
             /\ d.item = pendingDeletion]_vars

\* The delete call of item 2 is in flight with the flag set, after earlier
\* list requests: the only delete call.
C26_Witness ==
    /\ Cardinality(deleteCalls) = 1
    /\ \A d \in deleteCalls : d.item = 2 /\ d.page = 2
    /\ deleting
    /\ pendingDeletion = 2
    /\ issued >= 2
    /\ inFlight = {}

\* C27: whenever the Anterior or the Proxima button is enabled (canGoPrevious
\* or canGoNext, and not loading), the click issues a list request for a page
\* in 1..totalPages, also when currentPage exceeds totalPages.
C27_EnabledPagingControlFetches ==
    [][(\/ handlePreviousPageSellers
        \/ handleNextPageSellers
        \/ handlePreviousPageAppointments
        \/ handleNextPageAppointments)
          => \E r \in inFlight' \ inFlight :
                r.params.page >= 1 /\ r.params.page <= totalPages]_vars

\* C28: the initial list fetch is issued exactly once per mount: the mount
\* effect issues a request only as the first request of the page, for page 1
\* with no filter; the ref it sets is never reset, so that its later runs
\* issue nothing, and a step that changes the page, the filter or the applied
\* search issues at most the one request of its handler.
C28_InitialFetchOnce ==
    /\ [](hasFetchedInitial <=> issued >= 1)
    /\ [][/\ hasFetchedInitial => hasFetchedInitial'
          /\ (SellersMount \/ AppointmentsMount)
                => /\ issued = 0
                   /\ issued' = 1
                   /\ \E r \in inFlight' :
                         /\ inFlight' = {r}
                         /\ r.params.page = 1
                         /\ r.params.filter = Undefined
          /\ (/\ hasFetchedInitial
              /\ <<currentPage', lastFetchedSearch', selectedStatus'>>
                    # <<currentPage, lastFetchedSearch, selectedStatus>>)
                => /\ issued' <= issued + 1
                   /\ Cardinality(inFlight' \ inFlight) <= 1]_vars

\* The sellers list on page 2 of the search a: the page and the applied
\* search have changed since the mount, and three requests were issued, one
\* by the mount effect, one for the search and one for the page.
C28_Witness ==
    /\ route = "sellers"
    /\ hasFetchedInitial
    /\ lastFetchedSearch = "a"
    /\ currentPage = 2
    /\ issued = 3
    /\ inFlight = {}
    /\ lastEvent.op = "resolved"

\* C29: auth context: from a logout until the next call of login, the token
\* and the stored auth are empty and the location is not /dashboard, also
\* when a login call that was in flight at the logout succeeds.
C29_LogoutHolds ==
    loggedOut =>
        /\ token = Null
        /\ user = Null
        /\ storedAuth = NoAuth
        /\ path # "/dashboard"

\* C30: auth context: when a login call fails, the in-memory auth, the
\* stored auth and the location stay as they are, and the promise of that
\* call of login is rejected: the failure reaches the caller.
C30_FailedLoginChangesNothing ==
    [][\A c \in loginCalls :
          (loginCalls' = loginCalls \ {c} /\ lastEvent'.op = "loginRejected")
             => /\ UNCHANGED <<authState, storedAuth, path, loading>>
                /\ token' = token
                /\ user' = user
                /\ settled[c.id] = "pending"
                /\ settled'[c.id] = "rejected"
                /\ \A i \in DOMAIN settled : i # c.id => settled'[i] = settled[i]]_vars

\* The second login has just failed, after the first one succeeded with t2
\* and u2: the session of the first is still in the context and the storage.
C30_Witness ==
    /\ lastEvent.op = "loginRejected"
    /\ settled = <<"fulfilled", "rejected">>
    /\ token = "t2"
    /\ user = "u2"
    /\ storedAuth = [token |-> "t2", user |-> "u2"]
    /\ path = "/dashboard"

===========================================================================
